---- MODULE Spec2Model ----
(***************************************************************************)
(* DisplayLink framebuffer driver: the hybrid raw/RLE scanline encoder     *)
(* (displaylink-blit.c), the update path that drives it, and the locking   *)
(* of the entry points of udlfb.c.                                         *)
(*                                                                         *)
(* Pointers are modelled as offsets: a pixel pointer is an index into the  *)
(* host pixel memory px (pixel p is px[p + 1]), a command pointer is an    *)
(* offset into the command buffer buf (byte c is buf[c + 1]).              *)
(***************************************************************************)
EXTENDS Integers, Sequences, FiniteSets, TLC

VARIABLES
    host,        \* byte order of the CPU the driver is built for
    px,          \* host pixel memory the encoder reads
    buf,         \* the command buffer memory (dev->buf)
    next_pixel,  \* caller's pixel cursor       (*pixel_start_ptr)
    line_end,    \* caller's end of the range   (pixel_end)
    dev_addr,    \* caller's device address     (*device_address_ptr)
    cmd,         \* caller's buffer cursor      (*command_buffer_ptr)
    cmd_end,     \* end of the usable buffer    (cmd_end)
    rlx,         \* frame of displaylink_render_rgb565_hline_rlx
    wire,        \* buffers handed over so far, in order
    cmdlog,      \* history: one entry per command the encoder finalized
    spanlog,     \* history: one entry per span count byte the encoder wrote
    calls,       \* history: one entry per encoder call
    origin,      \* history: the arguments of the first call
    udev,        \* the device is attached (dev->udev != NULL)
    bulk_mutex,  \* dev->bulk_mutex: "free" or who holds it
    backing_buffer, \* dev->backing_buffer: the pixels last encoded
    blt,         \* frame of displaylink_image_blit
    fb_mutex,    \* dev->fb_mutex: "free" or who holds it
    thr,         \* per thread: the entry point it is in and its position
    ub,          \* frame of udlfb.c image_blit, draw_rect or copyarea
    lf           \* the device contexts, the framebuffer and who has it open

\* what displaylink_render_rgb565_hline_rlx neither reads nor writes
outside == <<udev, bulk_mutex, backing_buffer, blt, fb_mutex, thr>>

\* what the encoder and its caller work on
inside == <<host, px, buf, next_pixel, line_end, dev_addr, cmd, cmd_end, rlx,
            wire, cmdlog, spanlog, calls, origin>>

vars == <<inside, outside, ub, lf>>

----------------------------------------------------------------------------
(* Bounds of the model *)

\* longest pixel range enumerated exhaustively
MaxLen == 3
\* free buffer sizes tried beyond MIN_RLX_CMD_BYTES
MaxExtra == 5
\* most encoder calls made on one range
MaxCalls == 3

(* Program constants *)

MAX_CMD_PIXELS == 255
MIN_RLX_CMD_BYTES == 9
BUF_HIGH_WATER_MARK == 1024
BUF_SIZE == 65536

MIN(a, b) == IF a > b THEN b ELSE a

----------------------------------------------------------------------------
(* Machine arithmetic *)

U8(x)  == x % 256
U16(x) == x % 65536
Shr(x, k) == x \div (2 ^ k)

\* byte k of a value, byte 0 the least significant
ByteOf(x, k) == U8(Shr(x, 8 * k))

Swap16(x) == U8(Shr(x, 8)) + 256 * U8(x)

Hosts == {"little", "big"}

\* byte k of htonl(x), x a 32-bit value: on a little-endian host htonl
\* exchanges the four bytes end for end, on a big-endian host it is the
\* identity
htonl(x, k) == IF host = "little" THEN ByteOf(x, 3 - k) ELSE ByteOf(x, k)
htons(x) == IF host = "little" THEN Swap16(x) ELSE x

----------------------------------------------------------------------------
(* Memory *)

\* content of a buffer byte nothing has written since the buffer was handed out
Stale == -1

\* *p = v on the command buffer
Poke(b, p, v) ==
    IF p < Len(b) THEN [b EXCEPT ![p + 1] = v]
    ELSE b \o [i \in 1..(p - Len(b)) |-> Stale] \o <<v>>

\* mutant: the tail of the buffer is left as it is
Fill_Skip(b, p, v, n) == b

\* memset(p, v, n) on the command buffer
Fill(b, p, v, n) ==
    [i \in 1..(IF p + n > Len(b) THEN p + n ELSE Len(b)) |->
        IF i > p /\ i <= p + n THEN v
        ELSE IF i <= Len(b) THEN b[i] ELSE Stale]

\* pixel[k] for a pixel pointer p
Pixel(p, k) == px[p + k + 1]

\* the first n bytes of the buffer, as handed to the transport
Take(b, n) == [i \in 1..n |-> IF i <= Len(b) THEN b[i] ELSE Stale]

----------------------------------------------------------------------------
(* displaylink_render_rgb565_hline_rlx *)

\* mutant: the command loop only asks for room, not for MIN_RLX_CMD_BYTES
OuterAdmit_AnyRoom(pixel, pixel_end, c, c_end) ==
    pixel_end > pixel /\ c_end > c

\* loop test of the command loop
OuterAdmit(pixel, pixel_end, c, c_end) ==
    pixel_end > pixel /\ c_end > c + MIN_RLX_CMD_BYTES

\* mutant: a span pixel is admitted only with room for two of them
InnerAdmit_NeedsFour(pixel, cmd_pixel_end, c, c_end) ==
    cmd_pixel_end > pixel /\ c_end > c + 3

\* loop test of the span loop: worst case of 2 bytes to encode one pixel
InnerAdmit(pixel, cmd_pixel_end, c, c_end) ==
    cmd_pixel_end > pixel /\ c_end > c + 1

\* mutant: the command's pixel budget is not capped
CmdPixelEnd_NoCap(pixel, pixel_end) == pixel_end

\* where the command that starts at pixel must stop
CmdPixelEnd(pixel, pixel_end) ==
    pixel + MIN(pixel_end - pixel, MAX_CMD_PIXELS + 1)

\* mutant: the count saturates at 255 instead of wrapping
CountByte_Saturate(n) == MIN(n, 255)

\* a pixel count stored into a count byte
CountByte(n) == U8(n)

\* mutant: a buffer is never found to be out of room
NoRoom_Never(c, c_end) == FALSE

\* the test that closes the buffer: no room for anything useful
NoRoom(c, c_end) == c_end <= MIN_RLX_CMD_BYTES + c

\* mutant: the device address advances one byte per pixel
AdvanceAddr_PerPixel(addr, pixels) == addr + pixels

\* the device address after a command of that many pixels
AdvanceAddr(addr, pixels) == addr + pixels * 2

\* the frame on entry: the cursors are loaded from the caller's variables
RlxEntry(pixel_start, pixel_end, device_address, command_buffer, c_end) ==
    [pc |-> "loop",
     pixel |-> pixel_start, pixel_end |-> pixel_end,
     dev_addr |-> device_address,
     cmd |-> command_buffer, cmd_end |-> c_end,
     raw_pixels_count_byte |-> 0, cmd_pixels_count_byte |-> 0,
     render_state |-> "raw",
     raw_pixel_start |-> 0, cmd_pixel_start |-> 0, cmd_pixel_end |-> 0,
     pixel_repeat |-> 0,
     \* history: pixels consumed by the open span, first pixel of the open span
     span_pixels |-> 0, span_first |-> 0,
     \* history: highest buffer offset written by this call, -1 if none
     top |-> -1]

RlxIdle == [RlxEntry(0, 0, 0, 0, 0) EXCEPT !.pc = "idle"]

\* history entry for a span count byte written at offset pos
SpanEntry(kind, pos, byte) ==
    [kind |-> kind, fill |-> Len(wire) + 1, pos |-> pos, byte |-> byte,
     n |-> rlx.span_pixels + 1, first |-> rlx.span_first,
     cmdno |-> Len(cmdlog) + 1]

Max(a, b) == IF a > b THEN a ELSE b

\* a new command: header, reserved count bytes, pixel budget
RlxCommandStart ==
    /\ rlx.pc = "loop"
    /\ OuterAdmit(rlx.pixel, rlx.pixel_end, rlx.cmd, rlx.cmd_end)
    /\ LET c == rlx.cmd
           b1 == Poke(buf, c, 175)
           b2 == Poke(b1, c + 1, 107)
           b3 == Poke(b2, c + 2, htonl(rlx.dev_addr, 1))
           b4 == Poke(b3, c + 3, htonl(rlx.dev_addr, 2))
           b5 == Poke(b4, c + 4, htonl(rlx.dev_addr, 3))
       IN /\ buf' = b5
          /\ rlx' = [rlx EXCEPT
                !.pc = "span",
                !.cmd_pixels_count_byte = c + 5,
                !.cmd_pixel_start = rlx.pixel,
                !.render_state = "raw",
                !.raw_pixels_count_byte = c + 6,
                !.raw_pixel_start = rlx.pixel,
                !.cmd = c + 7,
                !.cmd_pixel_end = CmdPixelEnd(rlx.pixel, rlx.pixel_end),
                !.pixel_repeat = 0,
                !.span_pixels = 0, !.span_first = rlx.pixel,
                !.top = Max(rlx.top, c + 4)]
    /\ UNCHANGED <<lf, ub, host, px, next_pixel, line_end, dev_addr, cmd, cmd_end,
                   wire, cmdlog, spanlog, calls, origin, outside>>

\* case raw: emit the pixel; a repeat of it ends the raw span
RlxRaw ==
    /\ rlx.pc = "span"
    /\ InnerAdmit(rlx.pixel, rlx.cmd_pixel_end, rlx.cmd, rlx.cmd_end)
    /\ rlx.render_state = "raw"
    /\ LET be_pixel == htons(Pixel(rlx.pixel, 0))
           c == rlx.cmd
           b1 == Poke(buf, c, U8(be_pixel))
           b2 == Poke(b1, c + 1, U8(Shr(be_pixel, 8)))
           repeats == Pixel(rlx.pixel, 0) = Pixel(rlx.pixel, 1)
           count == CountByte(rlx.pixel - rlx.raw_pixel_start + 1)
       IN IF repeats
          THEN /\ buf' = Poke(b2, rlx.raw_pixels_count_byte, count)
               /\ rlx' = [rlx EXCEPT
                     !.cmd = c + 2,
                     !.pixel_repeat = 0,
                     !.render_state = "rle",
                     !.pixel = rlx.pixel + 1,
                     !.span_pixels = 0, !.span_first = rlx.pixel + 1,
                     !.top = Max(rlx.top, c + 1)]
               /\ spanlog' = Append(spanlog,
                     SpanEntry("raw", rlx.raw_pixels_count_byte, count))
          ELSE /\ buf' = b2
               /\ rlx' = [rlx EXCEPT
                     !.cmd = c + 2,
                     !.pixel = rlx.pixel + 1,
                     !.span_pixels = rlx.span_pixels + 1,
                     !.top = Max(rlx.top, c + 1)]
               /\ UNCHANGED spanlog
    /\ UNCHANGED <<lf, ub, host, px, next_pixel, line_end, dev_addr, cmd, cmd_end,
                   wire, cmdlog, calls, origin, outside>>

\* case rle: count the pixel; a different next pixel ends the run
RlxRle ==
    /\ rlx.pc = "span"
    /\ InnerAdmit(rlx.pixel, rlx.cmd_pixel_end, rlx.cmd, rlx.cmd_end)
    /\ rlx.render_state = "rle"
    /\ LET repeat == U16(rlx.pixel_repeat + 1)
           c == rlx.cmd
           ends == Pixel(rlx.pixel, 0) # Pixel(rlx.pixel, 1)
       IN IF ends
          THEN /\ buf' = Poke(buf, c, U8(repeat))
               /\ rlx' = [rlx EXCEPT
                     !.pixel_repeat = repeat,
                     !.raw_pixel_start = rlx.pixel + 1,
                     !.raw_pixels_count_byte = c + 1,
                     !.cmd = c + 2,
                     !.render_state = "raw",
                     !.pixel = rlx.pixel + 1,
                     !.span_pixels = 0, !.span_first = rlx.pixel + 1,
                     !.top = Max(rlx.top, c)]
               /\ spanlog' = Append(spanlog, SpanEntry("rle", c, U8(repeat)))
          ELSE /\ buf' = buf
               /\ rlx' = [rlx EXCEPT
                     !.pixel_repeat = repeat,
                     !.pixel = rlx.pixel + 1,
                     !.span_pixels = rlx.span_pixels + 1]
               /\ UNCHANGED spanlog
    /\ UNCHANGED <<lf, ub, host, px, next_pixel, line_end, dev_addr, cmd, cmd_end,
                   wire, cmdlog, calls, origin, outside>>

\* done, or hit the command length or buffer limit: close the open span,
\* fill in the command's pixel count, advance the device address
RlxFinalize ==
    /\ rlx.pc = "span"
    /\ ~InnerAdmit(rlx.pixel, rlx.cmd_pixel_end, rlx.cmd, rlx.cmd_end)
    /\ LET c == rlx.cmd
           pixels == rlx.pixel - rlx.cmd_pixel_start
           rawcount == CountByte(rlx.pixel - rlx.raw_pixel_start)
           b1 == IF rlx.render_state = "raw"
                 THEN Poke(buf, rlx.raw_pixels_count_byte, rawcount)
                 ELSE Poke(buf, c, U8(rlx.pixel_repeat))
           c1 == IF rlx.render_state = "raw" THEN c ELSE c + 1
           entry == IF rlx.render_state = "raw"
                    THEN [SpanEntry("raw", rlx.raw_pixels_count_byte, rawcount)
                             EXCEPT !.n = rlx.span_pixels]
                    ELSE [SpanEntry("rle", c, U8(rlx.pixel_repeat))
                             EXCEPT !.n = rlx.span_pixels]
       IN /\ buf' = Poke(b1, rlx.cmd_pixels_count_byte, CountByte(pixels))
          /\ rlx' = [rlx EXCEPT
                !.pc = "loop",
                !.cmd = c1,
                !.dev_addr = AdvanceAddr(rlx.dev_addr, pixels),
                !.top = IF rlx.render_state = "rle" THEN Max(rlx.top, c)
                        ELSE rlx.top]
          /\ spanlog' = Append(spanlog, entry)
          /\ cmdlog' = Append(cmdlog,
                [fill |-> Len(wire) + 1, pos |-> rlx.cmd_pixels_count_byte - 5,
                 addr |-> rlx.dev_addr, first |-> rlx.cmd_pixel_start,
                 n |-> pixels, last |-> c1])
    /\ UNCHANGED <<lf, ub, host, px, next_pixel, line_end, dev_addr, cmd, cmd_end,
                   wire, calls, origin, outside>>

\* no more pixels or no room for a command: pad a buffer that has no room
\* left with no-ops, and hand the cursors back to the caller
RlxReturn ==
    /\ rlx.pc = "loop"
    /\ ~OuterAdmit(rlx.pixel, rlx.pixel_end, rlx.cmd, rlx.cmd_end)
    /\ LET pad == NoRoom(rlx.cmd, rlx.cmd_end)
           n == rlx.cmd_end - rlx.cmd
       IN /\ buf' = IF pad /\ n > 0 THEN Fill(buf, rlx.cmd, 175, n) ELSE buf
          /\ cmd' = IF pad THEN rlx.cmd_end ELSE rlx.cmd
          /\ rlx' = [rlx EXCEPT
                !.pc = "ret",
                !.cmd = IF pad THEN rlx.cmd_end ELSE rlx.cmd,
                !.top = IF pad /\ n > 0 THEN Max(rlx.top, rlx.cmd_end - 1)
                        ELSE rlx.top]
    /\ next_pixel' = rlx.pixel
    /\ dev_addr' = rlx.dev_addr
    /\ UNCHANGED <<lf, ub, host, px, line_end, cmd_end, wire, cmdlog, spanlog, calls,
                   origin, outside>>

Render == RlxCommandStart \/ RlxRaw \/ RlxRle \/ RlxFinalize \/ RlxReturn

----------------------------------------------------------------------------
(* displaylink_image_blit *)

\* the display mode: pixels per line and lines (fb_info->var.xres, yres)
Mode == [xres |-> 3, yres |-> 2]

\* dev->line_length, in pixels
LinePixels == Mode.xres

\* bytes per pixel on the host and on the device
PixelSize == 2

\* dev->base16
Base16 == 0

BltIdle == [pc |-> "idle", x |-> 0, y |-> 0, width |-> 0, height |-> 0,
            i |-> 0, line_start |-> 0, back_start |-> 0, rc |-> 0,
            \* history: buffers sent and shadow content when the call began
            sends0 |-> 0, shadow0 |-> <<>>]

\* the shadow pixel at pixel offset p
Back(p) == backing_buffer[p + 1]

\* the columns of the row at ls (shadow at bs) that differ from the shadow
Differs(ls, bs, width) == {c \in 0..(width - 1) : Back(bs + c) # Pixel(ls, c)}

\* j after the forward scan: the first column that changed, or width
FirstChanged(ls, bs, width) ==
    LET d == Differs(ls, bs, width)
    IN IF d = {} THEN width ELSE CHOOSE c \in d : \A e \in d : c <= e

\* line_end after both scans: set to line_start[width + 1] first, and moved
\* to one past the last changed column only if the backward scan, which stops
\* above j, finds one
ScanLineEnd(ls, bs, width) ==
    LET j == FirstChanged(ls, bs, width)
        d == {c \in Differs(ls, bs, width) : c > j}
    IN IF d = {} THEN ls + width + 1
       ELSE ls + (CHOOSE c \in d : \A e \in d : c >= e) + 1

\* mutant: a row without changes keeps next_pixel at line_start
ScanNextPixel_KeepStart(ls, bs, width) ==
    LET j == FirstChanged(ls, bs, width)
    IN IF j = width THEN ls ELSE ls + j

\* next_pixel after both scans
ScanNextPixel(ls, bs, width) ==
    LET j == FirstChanged(ls, bs, width)
    IN IF j = width THEN ls + width + 1 ELSE ls + j

\* dlfb_bulk_msg: the buffer's first len bytes are submitted; the transfer
\* completes, or times out after a second and is killed
BulkMsg(len, ok) == Append(wire, [bytes |-> Take(buf, len), ok |-> ok])

\* memcpy of the row into the shadow
CopyRow(ls, bs, width) ==
    [p \in 1..Len(backing_buffer) |->
        IF p - 1 >= bs /\ p - 1 < bs + width THEN px[ls + (p - 1 - bs) + 1]
        ELSE backing_buffer[p]]

\* an update of the rectangle is requested; x and y are ints: x = -1 is
\* tried on the rows below the first, where line_start[0] is the last pixel
\* of the row above (on the first row it lies before the framebuffer)
BlitCall ==
    /\ blt.pc = "idle"
    /\ \E x \in -1..(Mode.xres - 1), y \in 0..(Mode.yres - 1),
          width \in 0..(Mode.xres + 1), height \in 0..(Mode.yres + 1) :
          /\ x < 0 => y > 0
          /\ blt' = [BltIdle EXCEPT !.pc = "lock", !.x = x, !.y = y,
                     !.width = width, !.height = height,
                     !.sends0 = Len(wire), !.shadow0 = backing_buffer]
    /\ UNCHANGED <<lf, ub, host, px, buf, next_pixel, line_end, dev_addr, cmd, cmd_end,
                   rlx, wire, cmdlog, spanlog, calls, origin, fb_mutex, thr, udev, bulk_mutex,
                   backing_buffer>>

\* mutex_lock(&dev->bulk_mutex)
BlitLock ==
    /\ blt.pc = "lock"
    /\ bulk_mutex = "free"
    /\ bulk_mutex' = "blit"
    /\ blt' = [blt EXCEPT !.pc = "check"]
    /\ UNCHANGED <<lf, ub, host, px, buf, next_pixel, line_end, dev_addr, cmd, cmd_end,
                   rlx, wire, cmdlog, spanlog, calls, origin, fb_mutex, thr, udev,
                   backing_buffer>>

\* the buffer cursor is reset, then the argument checks: each of them
\* returns at once
BlitCheck ==
    /\ blt.pc = "check"
    /\ cmd' = 0
    /\ cmd_end' = origin.room
    /\ blt' = IF ~udev THEN [blt EXCEPT !.pc = "done", !.rc = 0]
              ELSE IF blt.width <= 0 THEN [blt EXCEPT !.pc = "done", !.rc = -22]
              ELSE IF blt.x + blt.width > Mode.xres
              THEN [blt EXCEPT !.pc = "done", !.rc = -22]
              ELSE IF blt.y + blt.height > Mode.yres
              THEN [blt EXCEPT !.pc = "done", !.rc = -22]
              ELSE [blt EXCEPT !.pc = "row", !.i = blt.y]
    /\ UNCHANGED <<lf, ub, host, px, buf, next_pixel, line_end, dev_addr, rlx, wire,
                   cmdlog, spanlog, calls, origin, fb_mutex, thr, udev, bulk_mutex,
                   backing_buffer>>

\* the next row of the rectangle: narrow it to the pixels that changed
BlitRow ==
    /\ blt.pc = "row"
    /\ IF blt.i < blt.y + blt.height
       THEN LET ls == LinePixels * blt.i + blt.x
                bs == LinePixels * blt.i + blt.x
                j == FirstChanged(ls, bs, blt.width)
            IN /\ blt' = [blt EXCEPT !.pc = "line", !.line_start = ls,
                             !.back_start = bs]
               /\ next_pixel' = ScanNextPixel(ls, bs, blt.width)
               /\ line_end' = ScanLineEnd(ls, bs, blt.width)
               /\ dev_addr' = Base16 + LinePixels * PixelSize * blt.i
                              + blt.x * PixelSize
                              + (IF j < blt.width THEN j * PixelSize ELSE 0)
       ELSE /\ blt' = [blt EXCEPT !.pc = "flush"]
            /\ UNCHANGED <<next_pixel, line_end, dev_addr>>
    /\ UNCHANGED <<lf, ub, host, px, buf, cmd, cmd_end, rlx, wire, cmdlog, spanlog,
                   calls, origin, fb_mutex, thr, udev, bulk_mutex, backing_buffer>>

\* while pixels of the row are left, call the encoder on the buffer
BlitLine ==
    /\ blt.pc = "line"
    /\ IF next_pixel < line_end
       THEN /\ blt' = [blt EXCEPT !.pc = "render"]
            /\ rlx' = RlxEntry(next_pixel, line_end, dev_addr, cmd, cmd_end)
            /\ calls' = Append(calls, [pixel |-> next_pixel,
                                       dev_addr |-> dev_addr,
                                       free |-> cmd_end - cmd])
       ELSE /\ blt' = [blt EXCEPT !.pc = "copy"]
            /\ UNCHANGED <<rlx, calls>>
    /\ UNCHANGED <<lf, ub, host, px, buf, next_pixel, line_end, dev_addr, cmd, cmd_end,
                   wire, cmdlog, spanlog, origin, fb_mutex, thr, udev, bulk_mutex,
                   backing_buffer>>

\* the encoder is back: a full buffer is sent and the cursor reset
BlitSendFull ==
    /\ blt.pc = "render"
    /\ rlx.pc = "ret"
    /\ rlx' = [rlx EXCEPT !.pc = "idle"]
    /\ blt' = [blt EXCEPT !.pc = "line"]
    /\ IF cmd >= cmd_end
       THEN /\ \E ok \in BOOLEAN : wire' = BulkMsg(cmd, ok)
            /\ cmd' = 0
            \* what the buffer holds now is left over from this fill
            /\ buf' = <<>>
       ELSE UNCHANGED <<wire, cmd, buf>>
    /\ UNCHANGED <<lf, ub, host, px, next_pixel, line_end, dev_addr, cmd_end,
                   cmdlog, spanlog, calls, origin, fb_mutex, thr, udev, bulk_mutex,
                   backing_buffer>>

\* the row is encoded: copy it into the shadow
BlitCopy ==
    /\ blt.pc = "copy"
    /\ backing_buffer' = CopyRow(blt.line_start, blt.back_start, blt.width)
    /\ blt' = [blt EXCEPT !.pc = "row", !.i = blt.i + 1]
    /\ UNCHANGED <<lf, ub, host, px, buf, next_pixel, line_end, dev_addr, cmd, cmd_end,
                   rlx, wire, cmdlog, spanlog, calls, origin, fb_mutex, thr, udev, bulk_mutex>>

\* all rows done: send the partial buffer that remains
BlitFlush ==
    /\ blt.pc = "flush"
    /\ blt' = [blt EXCEPT !.pc = "unlock"]
    /\ IF cmd > 0
       THEN \E ok \in BOOLEAN : wire' = BulkMsg(cmd, ok)
       ELSE UNCHANGED wire
    /\ UNCHANGED <<lf, ub, host, px, buf, next_pixel, line_end, dev_addr, cmd, cmd_end,
                   rlx, cmdlog, spanlog, calls, origin, fb_mutex, thr, udev, bulk_mutex,
                   backing_buffer>>

\* mutex_unlock(&dev->bulk_mutex); return 0
BlitUnlock ==
    /\ blt.pc = "unlock"
    /\ bulk_mutex' = "free"
    /\ blt' = [blt EXCEPT !.pc = "done", !.rc = 0]
    /\ UNCHANGED <<lf, ub, host, px, buf, next_pixel, line_end, dev_addr, cmd, cmd_end,
                   rlx, wire, cmdlog, spanlog, calls, origin, fb_mutex, thr, udev,
                   backing_buffer>>

Blit == BlitLock \/ BlitCheck \/ BlitRow \/ BlitLine \/ BlitSendFull
        \/ BlitCopy \/ BlitFlush \/ BlitUnlock

----------------------------------------------------------------------------
(* Threads that call into the driver *)

Threads == {"t1", "t2", "t3"}

Ops == {"image_blit", "dlfb_fillrect", "dlfb_copyarea", "dlfb_set_video_mode",
        "dlfb_blank", "dlfb_disconnect", "displaylink_image_blit"}

ThreadIdle == [op |-> "none", pc |-> "idle"]

\* the most handles clients open on the framebuffer in one behaviour
MaxOpens == 2

\* the device is probed and attached, nobody has the framebuffer open:
\* info->par is the device context, whose fb_count is 0; the orphan
\* context does not exist yet
LifeIdle ==
    [par |-> "dev",
     fb_count |-> [dev |-> 0, odev |-> 0],
     fb_mutex |-> [dev |-> "free", odev |-> "free"],
     freed |-> {},
     destroyed |-> 0,
     held |-> 0,
     open |-> 0,
     opened |-> 0,
     disc |-> "no",
     th |-> [t \in Threads |-> [op |-> "none", pc |-> "idle", ctx |-> "dev"]]]

\* no call of image_blit, draw_rect or copyarea of udlfb.c is under way
UbIdle == [pc |-> "idle", op |-> "none", frame |-> "flat", shadow |-> "same",
           x |-> 0, y |-> 0, width |-> 0, height |-> 0,
           i |-> 0, rem |-> 0, base |-> 0, data |-> 0, bufptr |-> 0,
           thistime |-> 0, firstdiff |-> -1,
           src |-> 0, dst |-> 0, rlrem |-> 0, end_if_raw |-> 0,
           top |-> 0, start |-> 0, sends |-> 0, cmds |-> 0,
           trial |-> <<>>,
           last |-> [base |-> 0, pixel |-> 0, firstdiff |-> 0,
                     thistime |-> 0, bytes |-> <<>>]]

----------------------------------------------------------------------------
(* The encoder called on one pixel range with caller-supplied buffers *)

Pixels == {258, 772}

\* every range of up to MaxLen pixels, with the pixel that follows it in memory
ShortRows == UNION {[1..(n + 1) -> Pixels] : n \in 1..MaxLen}

\* p pixels that differ from their neighbours, r equal pixels, t more that
\* differ from their neighbours (the last one lies past the range)
AltRun(p, r, t) ==
    [i \in 1..(p + r + t) |->
        LET k == i - 1
            run == IF k < p THEN k ELSE IF k < p + r THEN p ELSE k - r + 1
        IN IF run % 2 = 0 THEN 258 ELSE 772]

\* ranges that reach the pixel limit of a command
LongRows ==
    {AltRun(p, r, t) : p \in (MAX_CMD_PIXELS - 2)..(MAX_CMD_PIXELS + 1),
                       r \in 1..3, t \in 1..3}
    \cup {AltRun(0, r, 1) : r \in (MAX_CMD_PIXELS + 1)..(MAX_CMD_PIXELS + 2)}
    \cup {AltRun(MAX_CMD_PIXELS + 45, 1, 0)}

\* room in an empty command buffer of the driver
BigFree == BUF_SIZE - BUF_HIGH_WATER_MARK

\* room left in a buffer that is nearly full
SmallFrees == {0} \cup ((MIN_RLX_CMD_BYTES - 1)..(MIN_RLX_CMD_BYTES + MaxExtra))

\* room left in a buffer that has just taken one command of the full pixel
\* count, all raw
MidFrees ==
    {7 + 2 * (MAX_CMD_PIXELS + 1) + f :
        f \in MIN_RLX_CMD_BYTES..(MIN_RLX_CMD_BYTES + 2)}

StartAddrs == {66302}

InitEnc ==
    /\ host \in Hosts
    /\ \E row \in ShortRows \cup LongRows, a \in StartAddrs :
          /\ Len(row) - 1 > MaxLen => host = "little"
          /\ px = row
          /\ line_end = Len(row) - 1
          /\ dev_addr = a
          /\ origin = [pixel |-> 0, dev_addr |-> a, room |-> 0,
                       frees |-> IF Len(row) - 1 <= MaxLen
                                 THEN SmallFrees \cup {BigFree}
                                 ELSE MidFrees \cup {BigFree}]
    /\ next_pixel = 0
    /\ buf = <<>>
    /\ cmd = 0
    /\ cmd_end = 0
    /\ rlx = RlxIdle
    /\ wire = <<>>
    /\ cmdlog = <<>>
    /\ spanlog = <<>>
    /\ calls = <<>>
    /\ udev = TRUE
    /\ bulk_mutex = "free"
    /\ backing_buffer = <<>>
    /\ blt = BltIdle
    /\ fb_mutex = "free"
    /\ thr = [t \in Threads |-> ThreadIdle]
    /\ ub = UbIdle
    /\ lf = LifeIdle

\* the caller hands the encoder a buffer with free bytes of room
EncCall ==
    /\ rlx.pc = "idle"
    /\ next_pixel < line_end
    /\ Len(calls) < MaxCalls
    /\ \E free \in origin.frees :
          /\ buf' = <<>>
          /\ cmd' = 0
          /\ cmd_end' = free
          /\ rlx' = RlxEntry(next_pixel, line_end, dev_addr, 0, free)
          /\ calls' = Append(calls, [pixel |-> next_pixel, dev_addr |-> dev_addr,
                                     free |-> free])
    /\ UNCHANGED <<lf, ub, host, px, next_pixel, line_end, dev_addr, wire, cmdlog,
                   spanlog, origin, outside>>

\* the caller takes the bytes the call produced
EncTake ==
    /\ rlx.pc = "ret"
    /\ wire' = Append(wire, [bytes |-> Take(buf, cmd), ok |-> TRUE])
    /\ rlx' = [rlx EXCEPT !.pc = "idle"]
    /\ UNCHANGED <<lf, ub, host, px, buf, next_pixel, line_end, dev_addr, cmd, cmd_end,
                   cmdlog, spanlog, calls, origin, outside>>

NextEnc == EncCall \/ Render \/ EncTake

Spec == InitEnc /\ [][NextEnc]_vars

----------------------------------------------------------------------------
(* The entry points as concurrent callers on one device *)

At(t, op, pc) == thr[t].op = op /\ thr[t].pc = pc

Goto(t, pc) == thr' = [thr EXCEPT ![t].pc = pc]

Return(t) == thr' = [thr EXCEPT ![t] = ThreadIdle]

\* positions where a thread is storing into dev->buf or the shadow
Writing == {"write", "write2"}

\* positions where a thread has submitted dev->tx_urb and waits for it
Sending == {"send", "send2"}

\* mutex_lock(&dev->bulk_mutex)
BulkLock(t, next) ==
    /\ bulk_mutex = "free"
    /\ bulk_mutex' = t
    /\ Goto(t, next)
    /\ UNCHANGED <<fb_mutex, udev>>

\* mutex_unlock(&dev->bulk_mutex)
BulkUnlock(t) ==
    /\ bulk_mutex' = "free"
    /\ UNCHANGED <<fb_mutex, udev>>

\* the body image_blit, draw_rect and copyarea share: rows are encoded into
\* dev->buf and the shadow updated; the buffer is sent when it runs full and
\* once more at the end if it holds anything; then bulk_mutex is released
BulkWork(t, op, after) ==
    \/ /\ At(t, op, "write")
       /\ \E pending \in BOOLEAN : Goto(t, IF pending THEN "send" ELSE "unlock")
       /\ UNCHANGED <<bulk_mutex, fb_mutex, udev>>
    \/ /\ At(t, op, "send")
       /\ \E more \in BOOLEAN : Goto(t, IF more THEN "write" ELSE "unlock")
       /\ UNCHANGED <<bulk_mutex, fb_mutex, udev>>
    \/ /\ At(t, op, "unlock")
       /\ BulkUnlock(t)
       /\ IF after = "return" THEN Return(t) ELSE Goto(t, after)

\* an entry point is called on a thread; the bus reports a removal once
Call(t) ==
    /\ thr[t].pc = "idle"
    /\ \E op \in Ops :
          /\ op = "dlfb_disconnect" =>
                udev /\ \A u \in Threads : thr[u].op # "dlfb_disconnect"
          /\ thr' = [thr EXCEPT ![t] = [op |-> op, pc |-> "entry"]]
    /\ UNCHANGED <<lf, ub, inside, udev, bulk_mutex, backing_buffer, blt, fb_mutex>>

\* image_blit, reached from dlfb_ioctl and dlfb_release
image_blit(t) ==
    /\ \/ /\ At(t, "image_blit", "entry")
          /\ \E inside_bounds \in BOOLEAN :
                IF udev /\ inside_bounds THEN Goto(t, "lock") ELSE Return(t)
          /\ UNCHANGED <<bulk_mutex, fb_mutex, udev>>
       \/ At(t, "image_blit", "lock") /\ BulkLock(t, "write")
       \/ BulkWork(t, "image_blit", "return")
    /\ UNCHANGED <<lf, ub, inside, backing_buffer, blt>>

\* dlfb_fillrect around draw_rect
dlfb_fillrect(t) ==
    /\ \/ /\ At(t, "dlfb_fillrect", "entry")
          /\ fb_mutex = "free"
          /\ fb_mutex' = t
          /\ Goto(t, "check")
          /\ UNCHANGED <<bulk_mutex, udev>>
       \/ /\ At(t, "dlfb_fillrect", "check")
          /\ \E inside_bounds \in BOOLEAN :
                IF ~udev THEN Return(t)
                ELSE IF inside_bounds THEN Goto(t, "lock")
                ELSE Goto(t, "fb_unlock")
          /\ UNCHANGED <<bulk_mutex, fb_mutex, udev>>
       \/ At(t, "dlfb_fillrect", "lock") /\ BulkLock(t, "write")
       \/ BulkWork(t, "dlfb_fillrect", "fb_unlock")
       \/ /\ At(t, "dlfb_fillrect", "fb_unlock")
          /\ fb_mutex' = "free"
          /\ Return(t)
          /\ UNCHANGED <<bulk_mutex, udev>>
    /\ UNCHANGED <<lf, ub, inside, backing_buffer, blt>>

\* dlfb_copyarea around copyarea
dlfb_copyarea(t) ==
    /\ \/ /\ At(t, "dlfb_copyarea", "entry")
          /\ fb_mutex = "free"
          /\ fb_mutex' = t
          /\ Goto(t, "check")
          /\ UNCHANGED <<bulk_mutex, udev>>
       \/ /\ At(t, "dlfb_copyarea", "check")
          /\ \E inside_bounds \in BOOLEAN :
                IF ~udev THEN Return(t)
                ELSE IF inside_bounds THEN Goto(t, "lock")
                ELSE Goto(t, "fb_unlock")
          /\ UNCHANGED <<bulk_mutex, fb_mutex, udev>>
       \/ At(t, "dlfb_copyarea", "lock") /\ BulkLock(t, "write")
       \/ BulkWork(t, "dlfb_copyarea", "fb_unlock")
       \/ /\ At(t, "dlfb_copyarea", "fb_unlock")
          /\ fb_mutex' = "free"
          /\ Return(t)
          /\ UNCHANGED <<bulk_mutex, udev>>
    /\ UNCHANGED <<lf, ub, inside, backing_buffer, blt>>

\* dlfb_set_video_mode: two register batches, each written and sent
dlfb_set_video_mode(t) ==
    /\ \/ /\ At(t, "dlfb_set_video_mode", "entry")
          /\ IF udev THEN Goto(t, "lock") ELSE Return(t)
          /\ UNCHANGED <<bulk_mutex, fb_mutex, udev>>
       \/ At(t, "dlfb_set_video_mode", "lock") /\ BulkLock(t, "write")
       \/ /\ \/ At(t, "dlfb_set_video_mode", "write") /\ Goto(t, "send")
             \/ At(t, "dlfb_set_video_mode", "send") /\ Goto(t, "write2")
             \/ At(t, "dlfb_set_video_mode", "write2") /\ Goto(t, "send2")
             \/ At(t, "dlfb_set_video_mode", "send2") /\ Goto(t, "unlock")
          /\ UNCHANGED <<bulk_mutex, fb_mutex, udev>>
       \/ /\ At(t, "dlfb_set_video_mode", "unlock")
          /\ BulkUnlock(t)
          /\ Return(t)
    /\ UNCHANGED <<lf, ub, inside, backing_buffer, blt>>

\* dlfb_blank: the registers are written to dev->buf and sent
dlfb_blank(t) ==
    /\ \/ At(t, "dlfb_blank", "entry") /\ Goto(t, "write")
       \/ At(t, "dlfb_blank", "write") /\ Goto(t, "send")
       \/ At(t, "dlfb_blank", "send") /\ Return(t)
    /\ UNCHANGED <<lf, ub, inside, udev, bulk_mutex, backing_buffer, blt, fb_mutex>>

\* dlfb_disconnect: it unlocks a bulk_mutex it never locked, which leaves
\* the mutex free or as it was, whoever holds it; then the URB is killed and
\* freed, the framebuffer handed to an orphan context whose udev is NULL
\* under fb_mutex, and the buffers freed
dlfb_disconnect(t) ==
    /\ \/ /\ At(t, "dlfb_disconnect", "entry")
          /\ bulk_mutex' \in {"free", bulk_mutex}
          /\ Goto(t, "kill")
          /\ UNCHANGED <<fb_mutex, udev>>
       \/ /\ At(t, "dlfb_disconnect", "kill")
          /\ Goto(t, "fb_lock")
          /\ UNCHANGED <<bulk_mutex, fb_mutex, udev>>
       \/ /\ At(t, "dlfb_disconnect", "fb_lock")
          /\ fb_mutex = "free"
          /\ fb_mutex' = t
          /\ Goto(t, "orphan")
          /\ UNCHANGED <<bulk_mutex, udev>>
       \/ /\ At(t, "dlfb_disconnect", "orphan")
          /\ udev' = FALSE
          /\ fb_mutex' = "free"
          /\ Goto(t, "free")
          /\ UNCHANGED bulk_mutex
       \/ /\ At(t, "dlfb_disconnect", "free")
          /\ Return(t)
          /\ UNCHANGED <<bulk_mutex, fb_mutex, udev>>
    /\ UNCHANGED <<lf, ub, inside, backing_buffer, blt>>

\* displaylink_image_blit as one of the callers: it locks, then checks
displaylink_image_blit(t) ==
    /\ \/ At(t, "displaylink_image_blit", "entry") /\ BulkLock(t, "check")
       \/ /\ At(t, "displaylink_image_blit", "check")
          /\ \E accepted \in BOOLEAN :
                IF udev /\ accepted THEN Goto(t, "write") ELSE Return(t)
          /\ UNCHANGED <<bulk_mutex, fb_mutex, udev>>
       \/ BulkWork(t, "displaylink_image_blit", "return")
    /\ UNCHANGED <<lf, ub, inside, backing_buffer, blt>>

InitLock ==
    /\ host = "little"
    /\ px = <<>>
    /\ buf = <<>>
    /\ next_pixel = 0
    /\ line_end = 0
    /\ dev_addr = 0
    /\ cmd = 0
    /\ cmd_end = 0
    /\ rlx = RlxIdle
    /\ wire = <<>>
    /\ cmdlog = <<>>
    /\ spanlog = <<>>
    /\ calls = <<>>
    /\ origin = [pixel |-> 0, dev_addr |-> 0, room |-> 0, frees |-> {}]
    /\ udev = TRUE
    /\ bulk_mutex = "free"
    /\ backing_buffer = <<>>
    /\ blt = BltIdle
    /\ fb_mutex = "free"
    /\ thr = [t \in Threads |-> ThreadIdle]
    /\ ub = UbIdle
    /\ lf = LifeIdle

NextLock ==
    \E t \in Threads :
        \/ Call(t)
        \/ image_blit(t)
        \/ dlfb_fillrect(t)
        \/ dlfb_copyarea(t)
        \/ dlfb_set_video_mode(t)
        \/ dlfb_blank(t)
        \/ dlfb_disconnect(t)
        \/ displaylink_image_blit(t)

SpecLock == InitLock /\ [][NextLock]_vars

----------------------------------------------------------------------------
(* displaylink_image_blit on a small display *)

\* usable buffer sizes: the real one, and three small enough for rows of
\* this display to fill the buffer; a fill can close on an odd or an even
\* offset, depending on the commands before
Rooms == {BigFree, 11, 12, 20}

\* the shadow before the update: the screen was cleared to one colour
Cleared == [p \in 1..(Mode.xres * Mode.yres) |-> 258]

InitBlit ==
    /\ host = "little"
    /\ \E frame \in [1..(Mode.xres * Mode.yres) -> Pixels], past \in Pixels :
          \* the framebuffer, and the memory that follows it
          px = frame \o <<past, past>>
    /\ backing_buffer = Cleared
    /\ \E room \in Rooms :
          origin = [pixel |-> 0, dev_addr |-> Base16, room |-> room,
                    frees |-> {}]
    /\ udev \in BOOLEAN
    /\ buf = <<>>
    /\ next_pixel = 0
    /\ line_end = 0
    /\ dev_addr = 0
    /\ cmd = 0
    /\ cmd_end = 0
    /\ rlx = RlxIdle
    /\ wire = <<>>
    /\ cmdlog = <<>>
    /\ spanlog = <<>>
    /\ calls = <<>>
    /\ bulk_mutex = "free"
    /\ blt = BltIdle
    /\ fb_mutex = "free"
    /\ thr = [t \in Threads |-> ThreadIdle]
    /\ ub = UbIdle
    /\ lf = LifeIdle

NextBlit == BlitCall \/ Blit \/ Render

SpecBlit == InitBlit /\ [][NextBlit]_vars

----------------------------------------------------------------------------
(* udlfb.c: the write cursor of image_blit, draw_rect and copyarea *)

\* the video mode of the display the three functions draw on
BigMode == [xres |-> 1600, yres |-> 1200]

\* rows of an update tall enough to fill dev->buf more than once
TallRows == 130

\* the source frame is one of three textures over two colours: one colour,
\* a change at every pixel, or runs of two
FrameKinds == {"flat", "noise", "pairs"}

\* pixel number p of the frame
FramePixel(kind, p) ==
    CASE kind = "flat" -> 258
      [] kind = "noise" -> IF p % 2 = 0 THEN 258 ELSE 772
      [] OTHER -> IF (p \div 2) % 2 = 0 THEN 258 ELSE 772

\* the shadow differs from the frame everywhere, nowhere, or from column
\* 100 of each row on
ShadowKinds == {"stale", "same", "head"}

\* pixel number p of dev->backing_buffer before the update
ShadowPixel(kind, frame, p) ==
    IF kind = "same" \/ (kind = "head" /\ p % BigMode.xres < 100)
    THEN FramePixel(frame, p)
    ELSE 0

Least(S) == CHOOSE m \in S : \A n \in S : m <= n

\* image_blit's scan for the first pixel of the chunk that has changed;
\* the code compares byte by byte and halves the index
FirstDiff(frame, shadow, pixel, thistime) ==
    LET changed == {j \in 0..(thistime - 1) :
                       ShadowPixel(shadow, frame, pixel + j)
                          # FramePixel(frame, pixel + j)}
    IN IF changed = {} THEN -1 ELSE Least(changed)

\* rle_compress16's inner loop: the run of pix0 that starts at src, within
\* rem pixels
RunLength(frame, src, rem) ==
    LET stops == {k \in 1..(rem - 1) :
                     FramePixel(frame, src + k) # FramePixel(frame, src)}
    IN IF stops = {} THEN rem ELSE Least(stops)

\* byte k of the 16-bit pixel v as it lies in host memory
HostByte(v, k) == IF host = "little" THEN ByteOf(v, k) ELSE ByteOf(v, 1 - k)

\* mutant: the buffer is sent only once nothing is left of it
NeedFlush_WhenFull(bufptr) == BUF_SIZE - bufptr <= 0

\* dev_info->bufend - bufptr < BUF_HIGH_WATER_MARK, bufend being
\* buf + BUF_SIZE
NeedFlush(bufptr) == BUF_SIZE - bufptr < BUF_HIGH_WATER_MARK

\* the check before a row and before a command: a buffer with less than
\* the reserve left is sent and the cursor goes back to dev->buf
Flushed(u) ==
    IF NeedFlush(u.bufptr)
    THEN [u EXCEPT !.sends = @ + 1, !.bufptr = 0]
    ELSE u

\* a command begins at the cursor
Begun(u) == [u EXCEPT !.start = u.bufptr, !.cmds = @ + 1]

\* the rectangles the three functions are called with; all lie inside
\* the display
ImageRects ==
    {[x |-> 0, y |-> 0, width |-> 0, height |-> 1],
     [x |-> 3, y |-> 2, width |-> 1, height |-> 1],
     [x |-> 1, y |-> 1, width |-> 254, height |-> TallRows],
     [x |-> 0, y |-> 0, width |-> 255, height |-> TallRows],
     [x |-> 0, y |-> 0, width |-> 256, height |-> TallRows],
     [x |-> 0, y |-> 0, width |-> BigMode.xres, height |-> 20]}

FillRects ==
    {[x |-> 0, y |-> 0, width |-> 0, height |-> 1],
     [x |-> 3, y |-> 2, width |-> 1, height |-> 1],
     [x |-> 0, y |-> 0, width |-> 255, height |-> BigMode.yres],
     [x |-> 0, y |-> 0, width |-> BigMode.xres, height |-> BigMode.yres]}

\* entry of image_blit, draw_rect or copyarea on an attached device with a
\* rectangle that passes the checks: lock, base, bufptr = dev->buf
UbCall ==
    /\ ub.pc = "idle"
    /\ bulk_mutex = "free"
    /\ \E op \in {"image_blit", "draw_rect", "copyarea"},
          frame \in FrameKinds, shadow \in ShadowKinds,
          r \in ImageRects \cup FillRects :
          /\ op = "image_blit" => r \in ImageRects
          /\ op # "image_blit" =>
                r \in FillRects /\ frame = "flat" /\ shadow = "same"
          /\ ub' = [UbIdle EXCEPT
                !.pc = "row", !.op = op, !.frame = frame, !.shadow = shadow,
                !.x = r.x, !.y = r.y, !.width = r.width, !.height = r.height,
                !.i = r.y,
                !.base = Base16 + BigMode.xres * 2 * r.y + r.x * 2,
                !.data = BigMode.xres * 2 * r.y + r.x * 2]
    /\ bulk_mutex' = "udlfb"
    /\ UNCHANGED <<inside, udev, backing_buffer, blt, fb_mutex, thr, lf>>

\* image_blit: top of the row loop
ImageBlitRow ==
    /\ ub.pc = "row"
    /\ ub.op = "image_blit"
    /\ ub' = IF ub.i < ub.y + ub.height
             THEN [Flushed(ub) EXCEPT !.rem = ub.width, !.pc = "chunk"]
             ELSE [ub EXCEPT !.pc = "final"]
    /\ UNCHANGED <<inside, outside, lf>>

\* image_blit: one turn of while (rem), up to the call of rle_compress16;
\* after the last chunk the row is copied to the shadow and the next
\* row begins
ImageBlitChunk ==
    /\ ub.pc = "chunk"
    /\ ub.op = "image_blit"
    /\ LET u == Flushed(ub)
           thistime == IF ub.rem > 255 THEN 255 ELSE ub.rem
           firstdiff == FirstDiff(ub.frame, ub.shadow, ub.data \div 2,
                                  thistime)
           step == BigMode.xres * 2 - ub.width * 2
       IN ub' =
            IF ub.rem = 0
            THEN [ub EXCEPT !.pc = "row", !.i = @ + 1,
                            !.base = @ + step, !.data = @ + step]
            ELSE IF firstdiff >= 0
            THEN [Begun(u) EXCEPT
                     !.pc = "rle",
                     !.thistime = thistime, !.firstdiff = firstdiff,
                     !.src = ub.data \div 2 + firstdiff,
                     !.dst = u.bufptr + 6,
                     !.trial = <<>>,
                     !.rlrem = thistime - firstdiff,
                     !.end_if_raw = u.bufptr + 6 + 2 * (thistime - firstdiff)]
            ELSE [u EXCEPT !.thistime = thistime, !.firstdiff = firstdiff,
                           !.base = @ + thistime * 2,
                           !.data = @ + thistime * 2,
                           !.rem = @ - thistime]
    /\ UNCHANGED <<inside, outside, lf>>

\* rle_compress16: one turn of the outer loop writes a run as three bytes
\* at dst; the loop ends when the pixels are used up or the output is no
\* shorter than raw
RleCompress16 ==
    /\ ub.pc = "rle"
    /\ ub' =
         IF ub.rlrem # 0 /\ ub.dst < ub.end_if_raw
         THEN LET rl == RunLength(ub.frame, ub.src, ub.rlrem)
                  pix0 == FramePixel(ub.frame, ub.src)
              IN [ub EXCEPT !.src = @ + rl, !.rlrem = @ - rl,
                            !.dst = @ + 3,
                            !.trial = @ \o <<U8(rl), HostByte(pix0, 1),
                                             HostByte(pix0, 0)>>,
                            !.top = Max(@, ub.dst + 3)]
         ELSE [ub EXCEPT !.pc = "emit"]
    /\ UNCHANGED <<inside, outside, lf>>

\* image_blit: keep the RLE output and put its header in front, or write
\* the raw command over it
ImageBlitEmit ==
    /\ ub.pc = "emit"
    /\ LET n == ub.thistime - ub.firstdiff
           end_of_rle == ub.dst
           addr == ub.base + ub.firstdiff * 2
           head(c) == <<175, c, ByteOf(addr, 2), ByteOf(addr, 1),
                        ByteOf(addr, 0), U8(n)>>
           \* data[j + 1] and then data[j] of each pixel
           raw == [m \in 1..(2 * n) |->
                      HostByte(FramePixel(ub.frame, ub.data \div 2
                                  + ub.firstdiff + (m - 1) \div 2),
                               m % 2)]
           rle == end_of_rle < ub.bufptr + 6 + 2 * n
           next == IF rle THEN end_of_rle ELSE ub.bufptr + 6 + 2 * n
       IN ub' = [ub EXCEPT
             !.pc = "chunk",
             !.bufptr = next,
             !.top = Max(@, next),
             !.base = @ + ub.thistime * 2,
             !.data = @ + ub.thistime * 2,
             !.rem = @ - ub.thistime,
             !.last = [base |-> ub.base, pixel |-> ub.data \div 2,
                       firstdiff |-> ub.firstdiff, thistime |-> ub.thistime,
                       bytes |-> IF rle THEN head(105) \o ub.trial
                                 ELSE head(104) \o raw]]
    /\ UNCHANGED <<inside, outside, lf>>

\* draw_rect and copyarea have the same loops. Top of the row loop: the
\* shadow row is written, then the check for a full buffer
FillRow(op) ==
    /\ ub.pc = "row"
    /\ ub.op = op
    /\ ub' = IF ub.i < ub.y + ub.height
             THEN [Flushed(ub) EXCEPT !.rem = ub.width, !.pc = "chunk"]
             ELSE [ub EXCEPT !.pc = "final"]
    /\ UNCHANGED <<inside, outside, lf>>

\* one turn of while (rem) writes one command of nine bytes for up to 255
\* pixels
FillCommand(op) ==
    /\ ub.pc = "chunk"
    /\ ub.op = op
    /\ LET u == Begun(Flushed(ub))
           n == IF ub.rem > 255 THEN 255 ELSE ub.rem
           step == BigMode.xres * 2 - ub.width * 2
       IN ub' =
            IF ub.rem = 0
            THEN [ub EXCEPT !.pc = "row", !.i = @ + 1, !.base = @ + step,
                            !.data = @ + step]
            ELSE [u EXCEPT !.bufptr = @ + 9,
                           !.top = Max(@, u.bufptr + 9),
                           !.base = @ + n * 2,
                           !.data = @ + n * 2,
                           !.rem = @ - n]
    /\ UNCHANGED <<inside, outside, lf>>

\* draw_rect: fill commands (0x69) of one colour
draw_rect == FillRow("draw_rect") \/ FillCommand("draw_rect")

\* copyarea: copy commands (0x6A) with a source address
copyarea == FillRow("copyarea") \/ FillCommand("copyarea")

\* all rows done: send what the buffer holds, unlock, return
UbFinal ==
    /\ ub.pc = "final"
    /\ ub' = [ub EXCEPT !.pc = "done",
                        !.sends = IF ub.bufptr > 0 THEN @ + 1 ELSE @]
    /\ bulk_mutex' = "free"
    /\ UNCHANGED <<inside, udev, backing_buffer, blt, fb_mutex, thr, lf>>

InitCursor ==
    /\ host \in Hosts
    /\ px = <<>>
    /\ buf = <<>>
    /\ next_pixel = 0
    /\ line_end = 0
    /\ dev_addr = 0
    /\ cmd = 0
    /\ cmd_end = 0
    /\ rlx = RlxIdle
    /\ wire = <<>>
    /\ cmdlog = <<>>
    /\ spanlog = <<>>
    /\ calls = <<>>
    /\ origin = [pixel |-> 0, dev_addr |-> 0, room |-> 0, frees |-> {}]
    /\ udev = TRUE
    /\ bulk_mutex = "free"
    /\ backing_buffer = <<>>
    /\ blt = BltIdle
    /\ fb_mutex = "free"
    /\ thr = [t \in Threads |-> ThreadIdle]
    /\ ub = UbIdle
    /\ lf = LifeIdle

NextCursor ==
    \/ UbCall
    \/ ImageBlitRow
    \/ ImageBlitChunk
    \/ RleCompress16
    \/ ImageBlitEmit
    \/ draw_rect
    \/ copyarea
    \/ UbFinal

SpecCursor == InitCursor /\ [][NextCursor]_vars

----------------------------------------------------------------------------
(* udlfb.c: dlfb_open, dlfb_release and dlfb_disconnect on one device *)

\* ctx->udev is set: the device context keeps its pointer, the orphan
\* context is made with udev = NULL
Udev(ctx) == ctx = "dev"

\* the framebuffer is registered, so that clients can still open it
Registered == lf.destroyed = 0

LifeAt(t, op, pc) == lf.th[t].op = op /\ lf.th[t].pc = pc

LifeGoto(l, t, pc) == [l EXCEPT !.th[t].pc = pc]

LifeReturn(l, t) ==
    [l EXCEPT !.th[t] = [op |-> "none", pc |-> "idle", ctx |-> "dev"]]

\* dev = info->par is read on entry, before any lock
LifeEnter(l, t, op) ==
    [l EXCEPT !.th[t] = [op |-> op, pc |-> "lock", ctx |-> l.par]]

\* mutex_lock(&ctx->fb_mutex)
LifeLock(t, pc) ==
    /\ lf.fb_mutex[lf.th[t].ctx] = "free"
    /\ lf' = [LifeGoto(lf, t, pc) EXCEPT !.fb_mutex[lf.th[t].ctx] = t]

\* dlfb_open with user != 0
dlfb_open(t) ==
    /\ \/ /\ LifeAt(t, "none", "idle")
          /\ Registered
          /\ lf.opened < MaxOpens
          /\ lf' = [LifeEnter(lf, t, "dlfb_open") EXCEPT !.opened = @ + 1]
       \/ LifeAt(t, "dlfb_open", "lock") /\ LifeLock(t, "check")
       \/ /\ LifeAt(t, "dlfb_open", "check")
          /\ lf' = IF Udev(lf.th[t].ctx)
                   THEN LifeGoto(lf, t, "inc")
                   ELSE \* unlock, return -1
                        [LifeReturn(lf, t) EXCEPT
                            !.fb_mutex[lf.th[t].ctx] = "free"]
       \/ /\ LifeAt(t, "dlfb_open", "inc")
          /\ lf' = [LifeGoto(lf, t, "unlock") EXCEPT
                       !.fb_count[lf.th[t].ctx] = @ + 1]
       \/ /\ LifeAt(t, "dlfb_open", "unlock")
          \* return 0: the client holds a handle
          /\ lf' = [LifeReturn(lf, t) EXCEPT
                       !.fb_mutex[lf.th[t].ctx] = "free",
                       !.open = @ + 1]
    /\ UNCHANGED <<inside, outside, ub>>

\* dlfb_release with user != 0, called once for each handle
dlfb_release(t) ==
    /\ \/ /\ LifeAt(t, "none", "idle")
          /\ lf.open > 0
          /\ lf' = [LifeEnter(lf, t, "dlfb_release") EXCEPT !.open = @ - 1]
       \/ LifeAt(t, "dlfb_release", "lock") /\ LifeLock(t, "dec")
       \/ /\ LifeAt(t, "dlfb_release", "dec")
          /\ lf' = [LifeGoto(lf, t, "check") EXCEPT
                       !.fb_count[lf.th[t].ctx] = @ - 1]
       \/ /\ LifeAt(t, "dlfb_release", "check")
          /\ lf' = IF lf.fb_count[lf.th[t].ctx] = 0 /\ ~Udev(lf.th[t].ctx)
                   THEN LifeGoto(lf, t, "destroy")
                   ELSE LifeGoto(lf, t, "blit")
       \/ /\ LifeAt(t, "dlfb_release", "destroy")
          \* dlfb_destroy_framebuffer(dev_info) on the orphan context reads
          \* dev->info at its offset in struct dlfb_device_context, past
          \* the end of the orphan: it gets the framebuffer or it does not
          /\ \/ lf' = [LifeGoto(lf, t, "free") EXCEPT
                          !.destroyed = @ + 1, !.held = lf.open]
             \/ lf' = LifeGoto(lf, t, "oops")
       \/ /\ LifeAt(t, "dlfb_release", "free")
          \* mutex_unlock, kfree(dev_info), return 0
          /\ lf' = [LifeReturn(lf, t) EXCEPT
                       !.fb_mutex[lf.th[t].ctx] = "free",
                       !.freed = @ \cup {lf.th[t].ctx}]
       \/ /\ LifeAt(t, "dlfb_release", "blit")
          \* image_blit of the whole screen (returns at once on an orphan)
          /\ lf' = LifeGoto(lf, t, "unlock")
       \/ /\ LifeAt(t, "dlfb_release", "unlock")
          /\ lf' = [LifeReturn(lf, t) EXCEPT
                       !.fb_mutex[lf.th[t].ctx] = "free"]
    /\ UNCHANGED <<inside, outside, ub>>

\* dlfb_disconnect, called once by the USB core: the urb is killed, then
\* the framebuffer is destroyed or handed to an orphan context
dlfb_unplug(t) ==
    /\ \/ /\ LifeAt(t, "none", "idle")
          /\ lf.disc = "no"
          /\ lf' = [lf EXCEPT !.disc = "running",
                       !.th[t] = [op |-> "dlfb_disconnect", pc |-> "lock",
                                  ctx |-> "dev"]]
       \/ LifeAt(t, "dlfb_disconnect", "lock") /\ LifeLock(t, "check")
       \/ /\ LifeAt(t, "dlfb_disconnect", "check")
          /\ lf' = IF lf.fb_count.dev = 0
                   THEN [LifeGoto(lf, t, "unlock") EXCEPT
                            !.destroyed = @ + 1, !.held = lf.open]
                   ELSE [LifeGoto(lf, t, "unlock") EXCEPT
                            !.fb_count.odev = lf.fb_count.dev,
                            !.par = "odev"]
       \/ /\ LifeAt(t, "dlfb_disconnect", "unlock")
          /\ lf' = [LifeGoto(lf, t, "free") EXCEPT !.fb_mutex.dev = "free"]
       \/ /\ LifeAt(t, "dlfb_disconnect", "free")
          \* vfree(dev->backing_buffer), kfree(dev->buf), kfree(dev)
          /\ lf' = [LifeReturn(lf, t) EXCEPT
                       !.freed = @ \cup {"dev"}, !.disc = "done"]
    /\ UNCHANGED <<inside, outside, ub>>

\* a thread that works on a context that has been freed may fault at any
\* of its steps
LifeOops(t) ==
    /\ lf.th[t].pc \notin {"idle", "oops"}
    /\ lf.th[t].ctx \in lf.freed
    /\ lf' = LifeGoto(lf, t, "oops")
    /\ UNCHANGED <<inside, outside, ub>>

InitLife == InitLock

NextLife ==
    \E t \in Threads :
        \/ dlfb_open(t)
        \/ dlfb_release(t)
        \/ dlfb_unplug(t)
        \/ LifeOops(t)

SpecLife == InitLife /\ [][NextLife]_vars

----------------------------------------------------------------------------
(* The command stream as the display controller reads it *)

RECURSIVE Cat(_, _)
Cat(w, i) == IF i > Len(w) THEN <<>> ELSE w[i].bytes \o Cat(w, i + 1)

\* the bytes handed over so far, in order
Stream == Cat(wire, 1)

IsByte(b) == b \in 0..255

\* a count byte as the controller reads it: 0 stands for 256
Wide(b) == IF b = 0 THEN 256 ELSE b

DecodeFail == [ok |-> FALSE, next |-> 0, pixels |-> <<>>]

\* the spans of one command from byte j on, until left pixels are covered:
\* raw span = count byte and that many big-endian pixels, RLE span = repeat
\* byte repeating the pixel before it
RECURSIVE DecodeSpans(_, _, _, _, _)
DecodeSpans(s, j, left, kind, acc) ==
    IF left = 0 THEN [ok |-> TRUE, next |-> j, pixels |-> acc]
    ELSE IF left < 0 \/ j > Len(s) THEN DecodeFail
    ELSE IF ~IsByte(s[j]) THEN DecodeFail
    ELSE LET n == Wide(s[j])
         IN IF kind = "raw"
            THEN IF j + 2 * n > Len(s) THEN DecodeFail
                 ELSE IF \E i \in (j + 1)..(j + 2 * n) : ~IsByte(s[i])
                 THEN DecodeFail
                 ELSE DecodeSpans(s, j + 1 + 2 * n, left - n, "rle",
                        acc \o [i \in 1..n |->
                                  256 * s[j + 2 * i - 1] + s[j + 2 * i]])
            ELSE IF acc = <<>> THEN DecodeFail
                 ELSE DecodeSpans(s, j + 1, left - n, "raw",
                        acc \o [i \in 1..n |-> acc[Len(acc)]])

\* a command header starts at byte i
HeaderAt(s, i) == i + 1 <= Len(s) /\ s[i] = 175 /\ s[i + 1] = 107

\* the first byte from i on that is not no-op filler
SkipFiller(s, i) ==
    LET stops == {j \in i..Len(s) : s[j] # 175 \/ HeaderAt(s, j)}
    IN IF stops = {} THEN Len(s) + 1
       ELSE CHOOSE j \in stops : \A k \in stops : j <= k

\* the commands of a stream: [ok, cmds], each command [addr, pixels]
RECURSIVE DecodeStream(_, _, _)
DecodeStream(s, i, acc) ==
    LET j == SkipFiller(s, i)
    IN IF j > Len(s) THEN [ok |-> TRUE, cmds |-> acc]
       ELSE IF ~HeaderAt(s, j) \/ j + 5 > Len(s) THEN [ok |-> FALSE, cmds |-> acc]
       ELSE IF \E k \in (j + 2)..(j + 5) : ~IsByte(s[k])
       THEN [ok |-> FALSE, cmds |-> acc]
       ELSE LET r == DecodeSpans(s, j + 6, Wide(s[j + 5]), "raw", <<>>)
            IN IF ~r.ok THEN [ok |-> FALSE, cmds |-> acc]
               ELSE DecodeStream(s, r.next,
                      Append(acc, [addr |-> 65536 * s[j + 2] + 256 * s[j + 3]
                                            + s[j + 4],
                                   pixels |-> r.pixels]))

Decode(s) == DecodeStream(s, 1, <<>>)

RECURSIVE CatPixels(_, _)
CatPixels(cs, i) ==
    IF i > Len(cs) THEN <<>> ELSE cs[i].pixels \o CatPixels(cs, i + 1)

\* the pixel range has been encoded and every buffer taken
EncDone == rlx.pc = "idle" /\ next_pixel = line_end /\ calls # <<>>

----------------------------------------------------------------------------
(* C1 *)

\* C1: once a pixel range is exhausted, decoding the concatenated command
\* bytes gives back exactly the pixels of the range, and each command's
\* device address is the previous command's address plus twice its pixel
\* count (the first command's is the address the caller started from).
\* Stated for the little-endian host, where pixels and addresses go out
\* in the byte order the controller expects.
C1_RoundTrip ==
    (EncDone /\ host = "little") =>
        LET d == Decode(Stream)
        IN /\ d.ok
           /\ CatPixels(d.cmds, 1) = SubSeq(px, 1, line_end)
           /\ \A i \in 1..Len(d.cmds) :
                 d.cmds[i].addr =
                    IF i = 1 THEN origin.dev_addr
                    ELSE d.cmds[i - 1].addr + 2 * Len(d.cmds[i - 1].pixels)

----------------------------------------------------------------------------
(* C2 *)

\* the display row a pixel pointer lies in
RowOf(p) == p \div LinePixels

\* the commands written to the buffer since it was last handed to the
\* transport
Unsent == {k \in 1..Len(cmdlog) : cmdlog[k].fill = Len(wire) + 1}

\* the rows of the rectangle whose shadow copy has been made
CopiedRows == blt.y..(blt.i - 1)

\* C2: no row's shadow has been updated while a command that encodes pixels
\* of that row is still in the command buffer, not yet handed to the
\* transport.
C2_ShadowAfterSend ==
    \A k \in Unsent : RowOf(cmdlog[k].first) \notin CopiedRows

----------------------------------------------------------------------------
(* C3 *)

\* C3: when an update has returned after exactly one send and that send
\* failed, the shadow has the content it had when the update began.
C3_FailedSendKeepsShadow ==
    (/\ blt.pc = "done"
     /\ Len(wire) = blt.sends0 + 1
     /\ ~wire[Len(wire)].ok) => backing_buffer = blt.shadow0

----------------------------------------------------------------------------
(* C4 *)

\* the threads between their first store into dev->buf and the completion
\* of their send
InSection == {t \in Threads : thr[t].pc \in Writing \cup Sending}

\* the threads waiting for a submitted send
InFlight == {t \in Threads : thr[t].pc \in Sending}

\* C4: at most one send is in flight, and at most one operation is writing
\* the command buffer or the shadow or sending.
C4_OneAtATime == Cardinality(InFlight) <= 1 /\ Cardinality(InSection) <= 1

----------------------------------------------------------------------------
(* C5 *)

\* C5: a call that is handed fewer than 9 free bytes encodes no pixel and
\* writes no command header and no span byte (only 0xAF filler), and the
\* pixel cursor and device address it hands back, and that the next call
\* starts from, are the ones it was called with.
C5_NoRoomNoWork ==
    \A k \in 1..Len(calls) : calls[k].free < 9 =>
        /\ \A i \in 1..Len(cmdlog) : cmdlog[i].fill # k
        /\ \A i \in 1..Len(spanlog) : spanlog[i].fill # k
        /\ k <= Len(wire) =>
              \A i \in 1..Len(wire[k].bytes) : wire[k].bytes[i] = 175
        /\ (k = Len(calls) /\ rlx.pc # "idle") =>
              /\ rlx.pixel = calls[k].pixel
              /\ rlx.dev_addr = calls[k].dev_addr
              /\ \A i \in 1..Len(buf) : buf[i] = 175
        /\ (k = Len(calls) /\ rlx.pc \in {"ret", "idle"}) =>
              /\ next_pixel = calls[k].pixel
              /\ dev_addr = calls[k].dev_addr
        /\ k < Len(calls) =>
              /\ calls[k + 1].pixel = calls[k].pixel
              /\ calls[k + 1].dev_addr = calls[k].dev_addr

\* a call with 8 free bytes and pixels left has returned
C5_Witness ==
    /\ rlx.pc = "ret"
    /\ calls[Len(calls)].free = 8
    /\ next_pixel < line_end
    /\ cmd = cmd_end

----------------------------------------------------------------------------
(* C6 *)

\* C6: every command the encoder emits, finished or still open, covers
\* at most 256 pixels.
C6_AtMost256 ==
    /\ \A i \in 1..Len(cmdlog) : cmdlog[i].n <= 256
    /\ rlx.pc = "span" => rlx.pixel - rlx.cmd_pixel_start <= 256

\* a range of more than 256 pixels was split: a command of 256 pixels and
\* another one after it
C6_Witness ==
    /\ line_end > 256
    /\ Len(cmdlog) >= 2
    /\ cmdlog[1].n = 256

----------------------------------------------------------------------------
(* C7 *)

\* the byte at offset pos of buffer number fill
ByteAt(fill, pos) ==
    IF fill <= Len(wire)
    THEN IF pos < Len(wire[fill].bytes) THEN wire[fill].bytes[pos + 1]
         ELSE Stale
    ELSE IF pos < Len(buf) THEN buf[pos + 1] ELSE Stale

\* C7: the pixel count byte in the header of every finished command is the
\* number of pixels the command consumed, and 0xFF; for a command of 256
\* pixels it is 0.
C7_DeclaredCount ==
    \A i \in 1..Len(cmdlog) :
        /\ ByteAt(cmdlog[i].fill, cmdlog[i].pos + 5) = cmdlog[i].n % 256
        /\ cmdlog[i].n = 256 => ByteAt(cmdlog[i].fill, cmdlog[i].pos + 5) = 0

\* a command of 256 pixels is on the wire
C7_Witness ==
    \E i \in 1..Len(cmdlog) :
        /\ cmdlog[i].n = 256
        /\ cmdlog[i].fill <= Len(wire)

----------------------------------------------------------------------------
(* C8 *)

\* pixels covered by the spans of command c from span entry i on, each
\* count byte read as the controller reads it
RECURSIVE SpanSum(_, _)
SpanSum(c, i) ==
    IF i > Len(spanlog) THEN 0
    ELSE (IF spanlog[i].cmdno = c
          THEN Wide(ByteAt(spanlog[i].fill, spanlog[i].pos))
          ELSE 0) + SpanSum(c, i + 1)

\* C8: for every command on the wire, the pixel total its header declares
\* equals the sum of the pixels its span count bytes stand for, a byte 0
\* standing for 256.
C8_DeclaredIsSum ==
    \A i \in 1..Len(cmdlog) : cmdlog[i].fill <= Len(wire) =>
        Wide(ByteAt(cmdlog[i].fill, cmdlog[i].pos + 5)) = SpanSum(i, 1)

----------------------------------------------------------------------------
(* C9 *)

\* C9: every raw count byte the encoder has finalized counts at least one
\* pixel.
C9_NoEmptyRaw ==
    \A i \in 1..Len(spanlog) : spanlog[i].kind = "raw" => spanlog[i].n >= 1

----------------------------------------------------------------------------
(* C10 *)

\* the runs [i, j] of 3 or more identical adjacent pixels in the range
Runs3 ==
    {ij \in (0..(line_end - 1)) \X (0..(line_end - 1)) :
        /\ ij[2] - ij[1] >= 2
        /\ \A k \in ij[1]..ij[2] : px[k + 1] = px[ij[1] + 1]}

\* an RLE span on the wire repeats at least one pixel of the run
RleCovers(ij) ==
    \E s \in 1..Len(spanlog) :
        /\ spanlog[s].kind = "rle"
        /\ spanlog[s].n >= 1
        /\ ByteAt(spanlog[s].fill, spanlog[s].pos) = spanlog[s].n
        /\ spanlog[s].first <= ij[2]
        /\ spanlog[s].first + spanlog[s].n - 1 >= ij[1]

\* C10: once the range is encoded, every run of 3 or more identical
\* adjacent pixels has an RLE span covering pixels of it.
C10_RunsGetRle == EncDone => \A ij \in Runs3 : RleCovers(ij)

----------------------------------------------------------------------------
(* C11 *)

\* one call with the room of an empty buffer has encoded the whole range
OneBigCall ==
    /\ EncDone
    /\ Len(calls) = 1
    /\ calls[1].free = BigFree

\* the three address bytes of a command header for device address a
AddrBytes(a) == <<ByteOf(a, 2), ByteOf(a, 1), ByteOf(a, 0)>>

\* a pixel as the controller reads it: high byte first
PixelBytes(p) == <<ByteOf(p, 1), ByteOf(p, 0)>>

\* the range is n >= 2 equal pixels and then one pixel that differs
RunThenOne ==
    /\ line_end >= 3
    /\ line_end <= MAX_CMD_PIXELS + 1
    /\ \A i \in 1..(line_end - 1) : px[i] = px[1]
    /\ px[line_end] # px[1]

\* C11: a range of n >= 2 pixels A and one pixel B # A, encoded by one call
\* with a large buffer, goes out as exactly one command: declared count
\* n + 1, raw count 1 with A, repeat count n - 1, raw count 1 with B.
C11_RunThenOneShape ==
    (OneBigCall /\ host = "little" /\ RunThenOne) =>
        Stream = <<175, 107>> \o AddrBytes(origin.dev_addr)
                 \o <<line_end, 1>> \o PixelBytes(px[1])
                 \o <<line_end - 2, 1>> \o PixelBytes(px[line_end])

----------------------------------------------------------------------------
(* C12 *)

\* no two adjacent pixels of the range are equal
NoRepeat == \A i \in 1..(line_end - 1) : px[i] # px[i + 1]

\* ceil(n / 256)
CommandsFor(n) == (n + MAX_CMD_PIXELS) \div (MAX_CMD_PIXELS + 1)

\* C12: a range of n pixels without equal neighbours, encoded by one call
\* with a large buffer, gives ceil(n / 256) commands; each but the last
\* covers 256 pixels, the last the rest; each command's address, in the log
\* and in its header bytes, is the start address plus twice the pixels of
\* the commands before it.
C12_SplitAt256 ==
    (OneBigCall /\ host = "little" /\ NoRepeat) =>
        /\ Len(cmdlog) = CommandsFor(line_end)
        /\ \A i \in 1..Len(cmdlog) :
              /\ cmdlog[i].first = (i - 1) * (MAX_CMD_PIXELS + 1)
              /\ cmdlog[i].n = MIN(MAX_CMD_PIXELS + 1,
                                   line_end - cmdlog[i].first)
              /\ cmdlog[i].addr = origin.dev_addr + 2 * cmdlog[i].first
              /\ \A k \in 1..3 :
                    ByteAt(cmdlog[i].fill, cmdlog[i].pos + 1 + k) =
                       AddrBytes(cmdlog[i].addr)[k]

\* 300 pixels without equal neighbours went out as 256 and 44 pixels, the
\* second command 512 bytes further
C12_Witness ==
    /\ OneBigCall
    /\ NoRepeat
    /\ line_end = 300
    /\ Len(cmdlog) = 2
    /\ cmdlog[1].n = 256
    /\ cmdlog[2].n = 44
    /\ cmdlog[2].addr = cmdlog[1].addr + 512
    /\ dev_addr = cmdlog[2].addr + 88

----------------------------------------------------------------------------
(* C13 *)

MinOf(S) == CHOOSE c \in S : \A e \in S : c <= e

MaxOf(S) == CHOOSE c \in S : \A e \in S : c >= e

\* C13: when the scan of a row that differs from the shadow is done, the
\* run handed to the encoder starts at the leftmost differing column and
\* ends one past the rightmost differing column, within the rectangle.
C13_TightestRun ==
    [][(blt.pc = "row" /\ blt'.pc = "line") =>
          LET ls == blt'.line_start
              d == Differs(ls, blt'.back_start, blt.width)
          IN d # {} =>
                /\ next_pixel' = ls + MinOf(d)
                /\ line_end' = ls + MaxOf(d) + 1
                /\ line_end' <= ls + blt.width]_vars

----------------------------------------------------------------------------
(* C14 *)

\* the row being worked on has no pixel that differs from the shadow
CleanRow ==
    /\ blt.pc \in {"line", "render", "copy"}
    /\ Differs(blt.line_start, blt.back_start, blt.width) = {}

\* C14: for a row equal to the shadow the encoder is not called: from the
\* scan to the next row no command byte is written, no call, command or
\* span is logged, nothing is sent and the shadow keeps its content.
C14_CleanRowSkipped ==
    [][CleanRow =>
          /\ blt'.pc \in {"copy", "row"}
          /\ UNCHANGED <<buf, cmd, rlx, calls, cmdlog, spanlog, wire,
                         backing_buffer>>]_vars

\* a row equal to the shadow is about to be copied, in an update that
\* encoded another row
C14_Witness ==
    /\ CleanRow
    /\ blt.pc = "copy"
    /\ blt.i > blt.y
    /\ cmdlog # <<>>

----------------------------------------------------------------------------
(* C15 *)

\* the rectangle of the update lies inside the display
InsideDisplay ==
    /\ 0 <= blt.x /\ blt.x + blt.width <= Mode.xres
    /\ 0 <= blt.y /\ blt.y + blt.height <= Mode.yres

\* C15: an update of a non-empty rectangle that is not inside the display
\* never encodes, sends or touches the shadow, and returns an error.
C15_OutsideRejected ==
    (/\ blt.pc # "idle"
     /\ udev
     /\ blt.width > 0 /\ blt.height > 0
     /\ ~InsideDisplay) =>
        /\ calls = <<>>
        /\ cmdlog = <<>>
        /\ wire = <<>>
        /\ backing_buffer = blt.shadow0
        /\ blt.pc = "done" => blt.rc < 0

----------------------------------------------------------------------------
(* C16 *)

\* the sends of this update that failed
FailedSends == {k \in (blt.sends0 + 1)..Len(wire) : ~wire[k].ok}

\* C16: an update during which a send failed does not return success.
C16_FailedSendReported ==
    (blt.pc = "done" /\ FailedSends # {}) => blt.rc < 0

----------------------------------------------------------------------------
(* C17 *)

\* C17: an update called on a detached device encodes nothing, sends
\* nothing, leaves the shadow alone and returns something other than the
\* success value.
C17_DetachedRejected ==
    (blt.pc # "idle" /\ ~udev) =>
        /\ calls = <<>>
        /\ cmdlog = <<>>
        /\ wire = <<>>
        /\ backing_buffer = blt.shadow0
        /\ blt.pc = "done" => blt.rc # 0

----------------------------------------------------------------------------
(* C18 *)

\* C18: when the update has returned, every command the encoder finalized
\* lies, up to its last byte, in a buffer that was handed to the transport,
\* and so does every span count byte.
C18_AllBytesSent ==
    blt.pc = "done" =>
        /\ \A i \in 1..Len(cmdlog) :
              /\ cmdlog[i].fill <= Len(wire)
              /\ cmdlog[i].last <= Len(wire[cmdlog[i].fill].bytes)
        /\ \A i \in 1..Len(spanlog) :
              /\ spanlog[i].fill <= Len(wire)
              /\ spanlog[i].pos < Len(wire[spanlog[i].fill].bytes)

----------------------------------------------------------------------------
(* C19 *)

\* offset pos of buffer number fill lies in a command the encoder finalized
InCommand(fill, pos) ==
    \E i \in 1..Len(cmdlog) :
        /\ cmdlog[i].fill = fill
        /\ cmdlog[i].pos <= pos
        /\ pos < cmdlog[i].last

\* C19: every byte of every buffer handed to the transport was written
\* since the buffer was last handed over, and is a byte of a finalized
\* command or a 0xAF filler byte.
C19_NoStaleByteSent ==
    \A k \in 1..Len(wire) : \A i \in 1..Len(wire[k].bytes) :
        /\ wire[k].bytes[i] # Stale
        /\ InCommand(k, i - 1) \/ wire[k].bytes[i] = 175

\* a second buffer went out after a first one that was sealed with filler
C19_Witness ==
    /\ Len(wire) >= 2
    /\ Len(wire[1].bytes) = origin.room
    /\ ~InCommand(1, origin.room - 1)
    /\ wire[1].bytes[origin.room] = 175

----------------------------------------------------------------------------
(* C20 *)

\* the range fits one command and ends on a pixel that differs from the
\* one before it and from the one after it in memory: one call with one
\* large buffer encodes such a range into a stream that decodes to it
TailClean ==
    /\ line_end <= MAX_CMD_PIXELS + 1
    /\ px[line_end] # px[line_end + 1]
    /\ line_end > 1 => px[line_end] # px[line_end - 1]

\* C20: however the range is split over calls and buffers, the commands
\* decode to the writes one call with one large buffer gives for a range
\* with such an end: the pixels of the range, in order, from the start
\* address on; and each call starts at the pixel and address where the one
\* before it stopped.
C20_SplitEquivalent ==
    /\ (EncDone /\ host = "little" /\ TailClean) =>
          LET d == Decode(Stream)
          IN /\ d.ok
             /\ CatPixels(d.cmds, 1) = SubSeq(px, 1, line_end)
             /\ \A i \in 1..Len(d.cmds) :
                   d.cmds[i].addr =
                      IF i = 1 THEN origin.dev_addr
                      ELSE d.cmds[i - 1].addr
                           + 2 * Len(d.cmds[i - 1].pixels)
    /\ \A k \in 2..Len(calls) :
          /\ calls[k].pixel >= calls[k - 1].pixel
          /\ calls[k].dev_addr =
                calls[1].dev_addr + 2 * (calls[k].pixel - calls[1].pixel)

----------------------------------------------------------------------------
(* C21 *)

\* C21: on either host, every finished command carries its device address
\* as three bytes, bits 23..16 first, and the first pixel of the command
\* follows its raw count byte high byte first.
C21_WireBigEndian ==
    \A i \in 1..Len(cmdlog) :
        /\ \A k \in 1..3 :
              ByteAt(cmdlog[i].fill, cmdlog[i].pos + 1 + k) =
                 AddrBytes(cmdlog[i].addr)[k]
        /\ cmdlog[i].n >= 1 =>
              \A k \in 1..2 :
                 ByteAt(cmdlog[i].fill, cmdlog[i].pos + 6 + k) =
                    PixelBytes(px[cmdlog[i].first + 1])[k]

----------------------------------------------------------------------------
(* C22 *)

\* C22: every byte a call of the encoder has written lies below cmd_end.
C22_WritesBelowEnd == rlx.pc # "idle" => rlx.top < rlx.cmd_end

----------------------------------------------------------------------------
(* C23 *)

\* C23: every RLE repeat byte the encoder has written counts at least one
\* pixel, and is 0 only for 256 of them.
C23_RepeatAtLeastOne ==
    \A i \in 1..Len(spanlog) : spanlog[i].kind = "rle" =>
        /\ spanlog[i].n >= 1
        /\ spanlog[i].byte = 0 => spanlog[i].n = 256

----------------------------------------------------------------------------
(* C24 *)

\* call number k has returned
Returned(k) == k < Len(calls) \/ (k = Len(calls) /\ rlx.pc \in {"ret", "idle"})

\* C24: a call that was handed exactly 9 free bytes, with pixels left, has
\* finished a command in that buffer when it returns.
C24_NineIsEnough ==
    \A k \in 1..Len(calls) : (calls[k].free = 9 /\ Returned(k)) =>
        \E i \in 1..Len(cmdlog) : cmdlog[i].fill = k

----------------------------------------------------------------------------
(* C25 *)

\* The thread inside displaylink_image_blit keeps running, and each
\* displaylink_bulk_msg it makes returns.
SpecBlitFair == SpecBlit /\ WF_vars(Blit \/ Render)

\* the encoder call made last, and whether it has just returned
LastCall == calls[Len(calls)]
BackFromEncoder == blt.pc = "render" /\ rlx.pc = "ret"

\* a returned call has used up the run or filled the buffer to cmd_end, and
\* a call that started on an empty buffer has consumed a pixel
CallProgress ==
    BackFromEncoder =>
        /\ next_pixel = line_end \/ cmd = cmd_end
        /\ LastCall.free = cmd_end => next_pixel > LastCall.pixel

\* C25: every encoder call returns with the run consumed or the buffer
\* full, a call on a reset buffer consumes a pixel, and every update that
\* passed the checks of displaylink_image_blit comes to its end.
C25_BlitTerminates ==
    /\ []CallProgress
    /\ (blt.pc = "row") ~> (blt.pc = "done")

\* an update that went through a full-buffer send in the middle of a row,
\* called the encoder again, and returned
C25_Witness ==
    /\ blt.pc = "done"
    /\ Len(wire) >= 2
    /\ \E k \in 2..Len(calls) :
          /\ calls[k].free = cmd_end
          /\ calls[k].pixel > blt.line_start
          /\ calls[k - 1].pixel < calls[k].pixel

----------------------------------------------------------------------------
(* C26 *)

\* C26: whenever displaylink_image_blit has returned, bulk_mutex is free.
C26_ReturnsUnlocked == blt.pc = "done" => bulk_mutex = "free"

----------------------------------------------------------------------------
(* C29 *)

\* C29: every command the encoder has finished consumed between 1 and 256
\* pixels, so a pixel count byte of 0 in its header stands for 256 pixels.
C29_NoEmptyCommand ==
    \A i \in 1..Len(cmdlog) :
        /\ cmdlog[i].n >= 1
        /\ cmdlog[i].n <= MAX_CMD_PIXELS + 1
        /\ ByteAt(cmdlog[i].fill, cmdlog[i].pos + 5) = 0 => cmdlog[i].n = 256

\* a command started with the least room the outer loop admits, 10 bytes,
\* has been finished with its one pixel
C29_Witness ==
    \E i \in 1..Len(cmdlog) :
        /\ cmdlog[i].n = 1
        /\ calls[cmdlog[i].fill].free - cmdlog[i].pos = MIN_RLX_CMD_BYTES + 1

----------------------------------------------------------------------------
(* C28 *)

\* C28: what the encoder emits for a range of one pixel does not depend on
\* the pixel that lies just past pixel_end: on a little-endian host and
\* with a large buffer it is the command of one raw pixel, whatever
\* follows the range in memory.
C28_PastEndIgnored ==
    (OneBigCall /\ host = "little" /\ line_end = 1) =>
        Stream = <<175, 107>> \o AddrBytes(origin.dev_addr)
                 \o <<1, 1>> \o PixelBytes(px[1])

----------------------------------------------------------------------------
(* C27 *)

\* C27: a thread that is back from dlfb_copyarea or dlfb_fillrect, or from
\* any other entry point, does not hold fb_mutex.
C27_ReturnsFbUnlocked ==
    \A t \in Threads : thr[t].pc = "idle" => fb_mutex # t

----------------------------------------------------------------------------
(* C30 *)

\* C30: in image_blit, draw_rect and copyarea the write cursor, the trial
\* output of rle_compress16 included, never passes bufend: a command
\* begins with at least BUF_HIGH_WATER_MARK bytes left and writes no more
\* than that.
C30_CursorInsideBuffer ==
    /\ ub.bufptr <= BUF_SIZE
    /\ ub.top <= BUF_SIZE
    /\ ub.pc = "rle" => ub.dst <= BUF_SIZE
    /\ ub.cmds > 0 =>
          /\ BUF_SIZE - ub.start >= BUF_HIGH_WATER_MARK
          /\ ub.pc \in {"rle", "emit"} =>
                ub.dst - ub.start <= BUF_HIGH_WATER_MARK
          /\ ub.bufptr >= ub.start =>
                ub.bufptr - ub.start <= BUF_HIGH_WATER_MARK

\* image_blit has sent a buffer in the middle of an update, and the trial
\* output of rle_compress16 for a chunk of 255 pixels that changes at
\* every pixel has just been given up for a raw command
C30_Witness ==
    /\ ub.op = "image_blit"
    /\ ub.pc = "emit"
    /\ ub.sends >= 1
    /\ ub.thistime - ub.firstdiff = 255
    /\ ub.dst >= ub.end_if_raw

----------------------------------------------------------------------------
(* C31 *)

\* the command image_blit wrote last, as the controller reads it
LastBytes == ub.last.bytes
LastCount == ub.last.thistime - ub.last.firstdiff

\* pixel number j of the part [firstdiff, thistime) of the last chunk
LastSource(j) ==
    FramePixel(ub.frame, ub.last.pixel + ub.last.firstdiff + j - 1)

\* the runs of an RLE command body, from run number lo to run number hi,
\* written out as pixels (high byte first)
RECURSIVE ExpandRuns(_, _, _)
ExpandRuns(bytes, lo, hi) ==
    IF lo > hi THEN <<>>
    ELSE IF lo = hi
    THEN [k \in 1..bytes[6 + 3 * lo - 2] |->
             bytes[6 + 3 * lo - 1] * 256 + bytes[6 + 3 * lo]]
    ELSE LET mid == (lo + hi) \div 2
         IN ExpandRuns(bytes, lo, mid) \o ExpandRuns(bytes, mid + 1, hi)

\* the pixels a raw command body stands for
ExpandRaw(bytes) ==
    [j \in 1..((Len(bytes) - 6) \div 2) |->
        bytes[6 + 2 * j - 1] * 256 + bytes[6 + 2 * j]]

\* the number of runs of equal pixels in the part the command covers
SourceRuns ==
    1 + Cardinality({j \in 2..LastCount : LastSource(j) # LastSource(j - 1)})

\* image_blit is back at the top of while (rem) after a command, and the
\* buffer has not been sent since
AfterCommand ==
    /\ ub.op = "image_blit"
    /\ ub.pc = "chunk"
    /\ ub.cmds > 0
    /\ ub.firstdiff >= 0
    /\ ub.bufptr > ub.start

\* C31: the command image_blit emits for a chunk that differs from the
\* shadow starts AF, 0x69 or 0x68, carries the address base + 2 * firstdiff
\* and the count thistime - firstdiff; a 0x69 command is strictly shorter
\* than the raw one and its runs add up to the count, a 0x68 command is
\* written only when RLE is not shorter; decoding either gives the source
\* pixels [firstdiff, thistime) of the chunk.
C31_OneCommandPerChunk ==
    AfterCommand =>
        /\ LastBytes[1] = 175
        /\ LastBytes[2] \in {104, 105}
        /\ <<LastBytes[3], LastBytes[4], LastBytes[5]>> =
              AddrBytes(ub.last.base + 2 * ub.last.firstdiff)
        /\ LastBytes[6] = LastCount
        /\ ub.bufptr = ub.start + Len(LastBytes)
        /\ LastBytes[2] = 105 =>
              /\ Len(LastBytes) < 6 + 2 * LastCount
              /\ (Len(LastBytes) - 6) % 3 = 0
              /\ ExpandRuns(LastBytes, 1, (Len(LastBytes) - 6) \div 3)
                    = [j \in 1..LastCount |-> LastSource(j)]
        /\ LastBytes[2] = 104 =>
              /\ Len(LastBytes) = 6 + 2 * LastCount
              /\ 6 + 3 * SourceRuns >= 6 + 2 * LastCount
              /\ ExpandRaw(LastBytes) = [j \in 1..LastCount |-> LastSource(j)]

----------------------------------------------------------------------------
(* C32 *)

\* pixel number q of the display lies in the rectangle of the update
InRectangle(q) ==
    /\ blt.y <= q \div Mode.xres /\ q \div Mode.xres < blt.y + blt.height
    /\ blt.x <= q % Mode.xres /\ q % Mode.xres < blt.x + blt.width

\* displaylink_image_blit has returned from an update it accepted
AcceptedDone == blt.pc = "done" /\ udev /\ blt.rc = 0

\* C32: after an accepted update has returned, every shadow pixel inside
\* the rectangle equals the source pixel and every shadow pixel outside
\* it is what it was before the update.
C32_ShadowOnlyInside ==
    AcceptedDone =>
        \A q \in 0..(Mode.xres * Mode.yres - 1) :
            backing_buffer[q + 1] = IF InRectangle(q) THEN px[q + 1]
                                    ELSE blt.shadow0[q + 1]

----------------------------------------------------------------------------
(* C33 *)

\* nothing is running and nothing is left to run: the device is
\* disconnected, every handle is closed, every thread is back or dead
LifeOver ==
    /\ lf.disc = "done"
    /\ lf.open = 0
    /\ \A t \in Threads : lf.th[t].pc \in {"idle", "oops"}

\* C33: whatever the interleaving of dlfb_open, dlfb_release and
\* dlfb_disconnect, the framebuffer is never destroyed twice, it is not
\* destroyed at a moment when a client holds it open, and it has been
\* destroyed once when the device is disconnected and every handle closed.
C33_DestroyedOnce ==
    /\ lf.destroyed <= 1
    /\ lf.held = 0
    /\ LifeOver => lf.destroyed = 1

====
